---- MODULE Spec2Model ----
(***************************************************************************)
(* Job orchestration of the vector conversion helper.                      *)
(*                                                                         *)
(* The state is the module-level job-status map of workers/processing.py,  *)
(* the per-job storage directories of services/storage.py, the position of *)
(* every process_job call and the value each call handed back to its       *)
(* caller.  A status read (get_job_status) returns the record of the       *)
(* current state, so successive reads see successive states of a run.      *)
(*                                                                         *)
(* A Python dict is a function whose DOMAIN is the set of keys present, so *)
(* "key absent" is `k \notin DOMAIN d', and dict.update is Update below.   *)
(* An f-string is the tuple of its parts; a str(e) is a tuple of strings.  *)
(* Job ids (uuid4) are fresh naturals.  Timestamps are the opaque token    *)
(* utcnow: only their presence is modelled.                                *)
(***************************************************************************)
EXTENDS Integers, Sequences, FiniteSets, TLC

\* ------------------------------------------------------------------ bounds
MaxJobs == 2

JobIds == 1..MaxJobs

\* ------------------------------------------------------- program constants
\* routes.py ext_map: detected MIME type -> extension of the upload file
ext_map == [t \in {"image/jpeg", "image/png", "image/heic"} |->
              CASE t = "image/jpeg" -> ".jpg"
                [] t = "image/png"  -> ".png"
                [] t = "image/heic" -> ".heic"]

\* the inputs of the upload requests: the k-th upload of a behaviour carries
\* a buffer of the k-th supported type, in rotation
SupportedTypes == <<"image/png", "image/jpeg", "image/heic">>

UploadTypes(k) == {SupportedTypes[((k - 1) % Len(SupportedTypes)) + 1]}

\* file names an upload request can carry (file.filename); "" is "no name"
Filenames == {"logo.png"}

\* what the installed tracing capability does on this deployment:
\*   ok        potrace is on the PATH and traces
\*   missing   shutil.which("potrace") finds nothing
\*   nonzero   potrace exits with a non-zero code
\*   nooutput  potrace exits 0 but writes no output file
\*   timeout   subprocess.run raises TimeoutExpired
\*   notfound  subprocess.run raises FileNotFoundError
\*   execerr   subprocess.run raises another OSError (exec format, permission)
PotraceModes == {"ok", "missing", "nonzero", "nooutput", "timeout",
                 "notfound", "execerr"}

\* what the optional background-removal capability does on this deployment:
\*   absent      `from rembg import remove' raises ImportError
\*   load_fails  the import raises another exception (a broken runtime library)
\*   raises      rembg loads, and raises when it is run on the image
\*   removed     rembg loads and returns an image
RembgOutcomes == {"absent", "load_fails", "raises", "removed"}

\* the deployments: each tracing capability without background removal, and
\* each background-removal capability with a potrace that traces
Deployments ==
  {[potrace |-> p, rembg |-> "absent"] : p \in PotraceModes}
    \cup {[potrace |-> "ok", rembg |-> r] : r \in RembgOutcomes}

\* ------------------------------------------------- utils/validation.py
\* MAX_FILE_SIZE, in bytes
MAX_FILE_SIZE == 10 * 1024 * 1024

\* the keys of MAGIC_BYTES, as byte values
JPEG_MAGIC == <<255, 216, 255>>

PNG_MAGIC == <<137, 80, 78, 71, 13, 10, 26, 10>>

\* b'ftyp'
FTYP == <<102, 116, 121, 112>>

\* b'heic', b'heix', b'hevc', b'hevx', b'mif1', b'msf1', and b'avif'
heic == <<104, 101, 105, 99>>

heix == <<104, 101, 105, 120>>

hevc == <<104, 101, 118, 99>>

hevx == <<104, 101, 118, 120>>

mif1 == <<109, 105, 102, 49>>

msf1 == <<109, 115, 102, 49>>

avif == <<97, 118, 105, 102>>

\* the ftyp keys of MAGIC_BYTES, in the order of the dict
FTYP_MAGICS == <<FTYP \o heic, FTYP \o mif1, FTYP \o heix>>

heic_brands == {heic, heix, hevc, hevx, mif1, msf1}

\* A buffer is modelled by its length and its first SignatureWindow bytes,
\* which is all that len(content), content.startswith(magic) for a magic of
\* at most 8 bytes, content[4:8], content[4:12] and content[8:12] depend on.
SignatureWindow == 12

\* the first four bytes, bytes 4..8 and bytes 8..12 the uploaded buffers are
\* made of: JPEG and PNG heads, an ISO box length, near misses
HeadBytes == {<<255, 216, 255, 224>>, <<137, 80, 78, 71>>, <<0, 0, 0, 24>>,
              <<255, 216, 0, 0>>}

MidBytes == {<<13, 10, 26, 10>>, FTYP, <<102, 116, 121, 113>>, <<0, 0, 0, 0>>}

TailBytes == heic_brands \cup {avif, <<0, 0, 0, 0>>}

\* the lengths of the uploaded buffers: none, shorter than a signature, around
\* the signature window, around the size cap
BufferSizes == {0, 1, 3, 8, 11, 12, 13, 14,
                MAX_FILE_SIZE - 1, MAX_FILE_SIZE, MAX_FILE_SIZE + 1}

Min(a, b) == IF a <= b THEN a ELSE b

\* bytes objects: the buffers an upload request can carry
Buffers ==
  {[head |-> SubSeq(h \o m \o t, 1, Min(n, SignatureWindow)), size |-> n] :
     h \in HeadBytes, m \in MidBytes, t \in TailBytes, n \in BufferSizes}

\* a well-formed buffer of each supported type
SampleBuffer ==
  [t \in {"image/jpeg", "image/png", "image/heic"} |->
     CASE t = "image/jpeg" -> [head |-> <<255, 216, 255, 224>> \o <<0, 0, 0, 0>> \o <<0, 0, 0, 0>>, size |-> 14]
       [] t = "image/png"  -> [head |-> <<137, 80, 78, 71>> \o <<13, 10, 26, 10>> \o <<0, 0, 0, 0>>, size |-> 14]
       [] t = "image/heic" -> [head |-> <<0, 0, 0, 24>> \o FTYP \o heic, size |-> 14]]

\* the buffer of the k-th upload of a behaviour in which every upload is valid
UploadBuffers(k) == {SampleBuffer[t] : t \in UploadTypes(k)}

\* the max_size arguments validate_file_size is called with
MaxSizes == {0, 1, 12, 13, MAX_FILE_SIZE}

\* len(content)
len(content) == content.size

\* content.startswith(magic)
startswith(content, magic) ==
  /\ Len(magic) <= Len(content.head)
  /\ SubSeq(content.head, 1, Len(magic)) = magic

\* content[a:b], for b within the signature window
slice(content, a, b) == SubSeq(content.head, a + 1, Min(b, Len(content.head)))

\* magic in section, for two bytes objects
contains(section, magic) ==
  \E i \in 0..(Len(section) - Len(magic)) :
    SubSeq(section, i + 1, i + Len(magic)) = magic

utcnow == "utcnow"

\* ------------------------------------------------------------ exceptions
\* utils/errors.py: an exception is its class name, its code and str(e)
ProcessingError(msg) ==
  [kind |-> "ProcessingError", code |-> "PROCESSING_ERROR", message |-> msg]

VectorizationError(msg) ==
  [kind |-> "VectorizationError", code |-> "VECTORIZATION_ERROR", message |-> msg]

ValidationError(msg) ==
  [kind |-> "ValidationError", code |-> "VALIDATION_ERROR", message |-> msg]

\* an exception that is not a VectorConversionError (OSError, MemoryError...)
OtherError(cls, msg) == [kind |-> cls, message |-> msg]

Classified == {"ProcessingError", "VectorizationError"}

\* -------------------------------------------------------------- dict model
\* d[k] = v
Put(d, k, v) == [i \in DOMAIN d \cup {k} |-> IF i = k THEN v ELSE d[i]]

\* d.update(kw)
Update(d, kw) ==
  [k \in DOMAIN d \cup DOMAIN kw |-> IF k \in DOMAIN kw THEN kw[k] ELSE d[k]]

\* ------------------------------------------------- utils/validation.py
\* validate_file_type without its second look at the ftyp box
validate_file_type_magic_only(content) ==
  IF len(content) < 12
    THEN [raised |-> TRUE, error |-> ValidationError(<<"File too small to identify type">>)]
    ELSE IF startswith(content, JPEG_MAGIC)
      THEN [raised |-> FALSE, value |-> "image/jpeg"]
      ELSE IF startswith(content, PNG_MAGIC)
        THEN [raised |-> FALSE, value |-> "image/png"]
        ELSE IF \E i \in 1..Len(FTYP_MAGICS) : contains(slice(content, 4, 12), FTYP_MAGICS[i])
          THEN [raised |-> FALSE, value |-> "image/heic"]
          ELSE [raised |-> TRUE,
                error  |-> ValidationError(<<"Unsupported file type. Please upload a JPG, PNG, or HEIC image.">>)]

\* validate_file_type(content): the MIME type, or the ValidationError raised
validate_file_type(content) ==
  IF len(content) < 12
    THEN [raised |-> TRUE, error |-> ValidationError(<<"File too small to identify type">>)]
    ELSE IF startswith(content, JPEG_MAGIC)
      THEN [raised |-> FALSE, value |-> "image/jpeg"]
      ELSE IF startswith(content, PNG_MAGIC)
        THEN [raised |-> FALSE, value |-> "image/png"]
        ELSE IF \E i \in 1..Len(FTYP_MAGICS) : contains(slice(content, 4, 12), FTYP_MAGICS[i])
          THEN [raised |-> FALSE, value |-> "image/heic"]
          ELSE IF slice(content, 4, 8) = FTYP /\ slice(content, 8, 12) \in heic_brands
            THEN [raised |-> FALSE, value |-> "image/heic"]
            ELSE [raised |-> TRUE,
                  error  |-> ValidationError(<<"Unsupported file type. Please upload a JPG, PNG, or HEIC image.">>)]

\* f"{n / (1024 * 1024):.1f}" and f"{n / (1024 * 1024):.0f}": the number of
\* tenths of a megabyte, and of megabytes, nearest to n bytes
mb_1f(n) == (20 * n + 1024 * 1024) \div (2 * 1024 * 1024)

mb_0f(n) == (2 * n + 1024 * 1024) \div (2 * 1024 * 1024)

\* validate_file_size that also refuses a buffer of exactly max_size bytes
validate_file_size_at_cap(content, max_size) ==
  LET size == len(content)
  IN  IF size >= max_size
        THEN [raised |-> TRUE,
              error  |-> ValidationError(<<"File too large (", mb_1f(size), "MB). Maximum size is ", mb_0f(max_size), "MB.">>)]
        ELSE IF size = 0
          THEN [raised |-> TRUE, error |-> ValidationError(<<"File is empty.">>)]
          ELSE [raised |-> FALSE, value |-> size]

\* validate_file_size(content, max_size): the size, or the ValidationError raised
validate_file_size(content, max_size) ==
  LET size == len(content)
  IN  IF size > max_size
        THEN [raised |-> TRUE,
              error  |-> ValidationError(<<"File too large (", mb_1f(size), "MB). Maximum size is ", mb_0f(max_size), "MB.">>)]
        ELSE IF size = 0
          THEN [raised |-> TRUE, error |-> ValidationError(<<"File is empty.">>)]
          ELSE [raised |-> FALSE, value |-> size]

\* job_status         _job_status: job id -> dict
\* storage            job id -> set of file names in storage/jobs/<id>
\* pc                 job id -> position of the upload request / process_job call
\* input_path         job id -> the input_path argument of its process_job call
\* preprocess_result  job id -> process_job's local of that name, once assigned
\* caught             job id -> the exception `e' bound by an except clause of its run
\* ret                job id -> how its process_job call ended, once it has
\* potrace            the deployment's tracing capability (see PotraceModes)
\* content            the buffer read from the upload request handled last
\* upload_outcome     what the validation of that request led to
\* max_size           the max_size argument of a validate_file_size call
\* validation         the results of the calls of the two validators on content
\* rembg              the deployment's background-removal capability (see RembgOutcomes)
\* REMBG_AVAILABLE    the module global of that name of image_processing.py
\* held               what a caller of get_job_status holds since its last call
\* calls              per job id, the stage operations its run has invoked so far, in order
\* response           per job id, the response its POST /upload request has sent
\* status_request     the GET /status request a client has sent, and its answer
\* img_size           (width, height) of the image _resize_if_needed is called on
\* resized            the outcome of that call
\* settings           the Settings instance get_settings() returns
VARIABLES job_status, storage, pc, input_path, preprocess_result, caught, ret, potrace,
          content, upload_outcome, max_size, validation, rembg, REMBG_AVAILABLE, held,
          calls, response, status_request, img_size, resized, settings

vars == <<job_status, storage, pc, input_path, preprocess_result, caught, ret, potrace,
          content, upload_outcome, max_size, validation, rembg, REMBG_AVAILABLE, held,
          calls, response, status_request, img_size, resized, settings>>

\* the variables of the upload request and of the validator calls
request_vars == <<content, upload_outcome>>

validator_vars == <<max_size, validation>>

\* the variables of the requests as the event loop serves them
loop_vars == <<response, status_request>>

\* the variables of the _resize_if_needed call
resize_vars == <<img_size, resized>>

\* ------------------------------------------------- workers/processing.py
\* a lookup that answers for an unknown id with a default record
get_job_status_default(job_id) ==
  IF job_id \in DOMAIN job_status
    THEN [found |-> TRUE, job |-> job_status[job_id]]
    ELSE [found |-> TRUE,
          job   |-> [job_id     |-> job_id,
                     status     |-> "queued",
                     progress   |-> 0,
                     stage      |-> "Initializing...",
                     created_at |-> utcnow,
                     updated_at |-> utcnow]]

\* get_job_status(job_id): _job_status.get(job_id), the stored dict or None
get_job_status(job_id) ==
  IF job_id \in DOMAIN job_status
    THEN [found |-> TRUE, job |-> job_status[job_id]]
    ELSE [found |-> FALSE]

\* one dict object shared by all the records: an update reaches every job
set_job_status_shared(js, job_id, kwargs) ==
  LET fresh == [job_id     |-> job_id,
                status     |-> "queued",
                progress   |-> 0,
                stage      |-> "Initializing...",
                created_at |-> utcnow,
                updated_at |-> utcnow]
      old   == IF job_id \in DOMAIN js THEN js[job_id] ELSE fresh
      new   == Update(Update(old, kwargs), [updated_at |-> utcnow])
  IN  [i \in DOMAIN js \cup {job_id} |->
         IF i = job_id THEN new ELSE Update(Update(js[i], kwargs), [updated_at |-> utcnow])]

set_job_status(js, job_id, kwargs) ==
  LET fresh == [job_id     |-> job_id,
                status     |-> "queued",
                progress   |-> 0,
                stage      |-> "Initializing...",
                created_at |-> utcnow,
                updated_at |-> utcnow]
      old   == IF job_id \in DOMAIN js THEN js[job_id] ELSE fresh
      new   == Update(Update(old, kwargs), [updated_at |-> utcnow])
  IN  [i \in DOMAIN js \cup {job_id} |-> IF i = job_id THEN new ELSE js[i]]

\* a generator that hands out an id again
uuid4_reused(js) == CHOOSE i \in JobIds : \A k \in JobIds : i <= k

\* uuid4(): an id no job has
uuid4(js) == CHOOSE i \in JobIds \ DOMAIN js : \A k \in JobIds \ DOMAIN js : i <= k

\* a create_job that marks the new job as already started
create_job_started(js, job_id, original_filename) ==
  set_job_status(js, job_id,
                 [status            |-> "processing",
                  progress          |-> 0,
                  stage             |-> "Queued for processing",
                  original_filename |-> original_filename])

create_job(js, job_id, original_filename) ==
  set_job_status(js, job_id,
                 [status            |-> "queued",
                  progress          |-> 0,
                  stage             |-> "Queued for processing",
                  original_filename |-> original_filename])

\* the two except clauses of process_job: what is written to the job record
\* (each preceded by faulty variants of it)
except_known_keeps_progress(js, job_id, e) ==
  set_job_status(js, job_id,
                 [status        |-> "failed",
                  stage         |-> "Failed",
                  error_code    |-> e.kind,
                  error_message |-> e.message])

except_known(js, job_id, e) ==
  set_job_status(js, job_id,
                 [status        |-> "failed",
                  progress      |-> 0,
                  stage         |-> "Failed",
                  error_code    |-> e.kind,
                  error_message |-> e.message])

except_unexpected_keeps_status(js, job_id, e) ==
  set_job_status(js, job_id,
                 [progress      |-> 0,
                  stage         |-> "Failed",
                  error_code    |-> "UNEXPECTED_ERROR",
                  error_message |-> <<"An unexpected error occurred: ">> \o e.message])

except_unexpected_class_name(js, job_id, e) ==
  set_job_status(js, job_id,
                 [status        |-> "failed",
                  progress      |-> 0,
                  stage         |-> "Failed",
                  error_code    |-> e.kind,
                  error_message |-> <<"An unexpected error occurred: ">> \o e.message])

except_unexpected(js, job_id, e) ==
  set_job_status(js, job_id,
                 [status        |-> "failed",
                  progress      |-> 0,
                  stage         |-> "Failed",
                  error_code    |-> "UNEXPECTED_ERROR",
                  error_message |-> <<"An unexpected error occurred: ">> \o e.message])

\* isinstance(e, (ProcessingError, VectorizationError))
is_known(e) == e.kind \in Classified

\* a try block without the catch-all clause: the record is left as it is
handle_without_catch_all(js, job_id, e) ==
  IF is_known(e) THEN except_known(js, job_id, e) ELSE js

handle(js, job_id, e) ==
  IF is_known(e) THEN except_known(js, job_id, e)
                 ELSE except_unexpected(js, job_id, e)

\* the dict the except clauses return
failed_result(job_id, e) ==
  [status        |-> "failed",
   job_id        |-> job_id,
   error_code    |-> IF is_known(e) THEN e.kind ELSE "UNEXPECTED_ERROR",
   error_message |-> e.message]

\* ---------------------------------------------------------- file names
upload_name(ext)   == <<"upload", ext>>

original_name(ext) == <<"original", ext>>

normalized_name   == <<"job_id", "_normalized.png">>

preprocessed_name == <<"job_id", "_preprocessed.png">>

\* Path(name).suffix.lower()
suffix(name) == name[2]

\* str.strip("."): the extension without its dot
strip_dot == [e \in {".jpg", ".png", ".heic"} |->
                CASE e = ".jpg"  -> "jpg"
                  [] e = ".png"  -> "png"
                  [] e = ".heic" -> "heic"]

\* f"/api/files/{job_id}/{filename}"
file_url(job_id, filename) == <<"/api/files/", job_id, "/", filename>>

\* pixel sizes of the uploaded images
ImageSizes == {<<50, 50>>}

\* no upload request was read yet; no validator was called yet
NoContent == [head |-> << >>, size |-> 0]

NotCalled == [type |-> [called |-> FALSE], size |-> [called |-> FALSE]]

Init ==
  /\ job_status = << >>
  /\ storage = << >>
  /\ pc = [j \in JobIds |-> "none"]
  /\ input_path = << >>
  /\ preprocess_result = << >>
  /\ caught = << >>
  /\ ret = << >>
  /\ \E d \in Deployments : potrace = d.potrace /\ rembg = d.rembg
  /\ REMBG_AVAILABLE = "None"
  /\ content = NoContent
  /\ upload_outcome = [state |-> "none"]
  /\ max_size = MAX_FILE_SIZE
  /\ validation = NotCalled
  /\ held = [state |-> "none"]
  /\ calls = [j \in JobIds |-> << >>]
  /\ response = << >>
  /\ status_request = [state |-> "none"]
  /\ img_size = <<50, 50>>
  /\ resized = [called |-> FALSE]
  /\ settings = [max_file_size_mb |-> 10]

\* ------------------------------------------------------ api/routes.py
\* raise HTTPException(status_code=..., detail=...)
HTTPException(status_code, detail) ==
  [state |-> "rejected", status_code |-> status_code, detail |-> detail]

\* an upload handler that forgets the size validation
validate_upload_type_only(buffer) ==
  LET type == validate_file_type(buffer)
  IN  IF type.raised
        THEN type
        ELSE [raised |-> FALSE, detected_type |-> type.value]

\* lines 57-67: the type validation, then the size validation against the
\* default cap; the first ValidationError ends the request
validate_upload(buffer) ==
  LET type == validate_file_type(buffer)
      size == validate_file_size(buffer, MAX_FILE_SIZE)
  IN  IF type.raised
        THEN type
        ELSE IF size.raised
          THEN size
          ELSE [raised |-> FALSE, detected_type |-> type.value]

\* POST /upload up to the call of process_job: the buffer is read and
\* validated; a ValidationError becomes HTTP 400, otherwise create_job,
\* get_job_dir, write the upload file
upload_file(buffer, filename) ==
  /\ content' = buffer
  /\ LET checked == validate_upload(buffer)
     IN  IF checked.raised
           THEN /\ upload_outcome' = HTTPException(400, checked.error.message)
                /\ UNCHANGED <<job_status, storage, input_path, pc>>
           ELSE /\ JobIds \ DOMAIN job_status # {}
                /\ LET job_id            == uuid4(job_status)
                       original_filename == IF filename = "" THEN "upload" ELSE filename
                       temp_upload_path  == upload_name(ext_map[checked.detected_type])
                   IN  /\ job_status' = create_job(job_status, job_id, original_filename)
                       /\ storage' = Put(storage, job_id, {temp_upload_path})
                       /\ input_path' = Put(input_path, job_id, temp_upload_path)
                       /\ pc' = [pc EXCEPT ![job_id] = "created"]
                       /\ upload_outcome' = [state |-> "accepted", job_id |-> job_id]
  /\ UNCHANGED <<preprocess_result, caught, ret, potrace, rembg, REMBG_AVAILABLE, validator_vars, held, calls, loop_vars, resize_vars, settings>>

\* d.get(key, default)
Get(d, key, default) == IF key \in DOMAIN d THEN d[key] ELSE default

\* GET /status/{job_id}: the response
get_status(job_id) ==
  LET status == get_job_status(job_id)
  IN  IF ~status.found
        THEN [status_code |-> 404, detail |-> <<"Job not found: ", job_id>>]
        ELSE [status_code |-> 200,
              body |-> [job_id     |-> job_id,
                        status     |-> status.job.status,
                        progress   |-> Get(status.job, "progress", 0),
                        stage      |-> Get(status.job, "stage", "Unknown"),
                        created_at |-> status.job.created_at,
                        updated_at |-> status.job.updated_at]]

\* a get_result that answers for an unknown id as for a failed job
get_result_unknown_as_failed(job_id) ==
  LET status == get_job_status(job_id)
  IN  IF ~status.found \/ status.job.status = "failed"
        THEN [status_code |-> 200,
              body |-> [job_id        |-> job_id,
                        status        |-> "failed",
                        error_code    |-> IF status.found THEN Get(status.job, "error_code", "UNKNOWN") ELSE "UNKNOWN",
                        error_message |-> IF status.found THEN Get(status.job, "error_message", <<"Processing failed">>)
                                                          ELSE <<"Processing failed">>]]
        ELSE IF status.job.status # "completed"
          THEN [status_code |-> 200,
                body |-> [job_id  |-> job_id,
                          status  |-> status.job.status,
                          message |-> "Job is still processing. Check /api/status/{job_id} for progress."]]
          ELSE [status_code |-> 200,
                body |-> [job_id       |-> job_id,
                          status       |-> "completed",
                          files        |-> Get(status.job, "files", << >>),
                          metadata     |-> Get(status.job, "metadata", << >>),
                          created_at   |-> status.job.created_at,
                          completed_at |-> Get(status.job, "completed_at", "None")]]

\* GET /result/{job_id}: the response
get_result(job_id) ==
  LET status == get_job_status(job_id)
  IN  IF ~status.found
        THEN [status_code |-> 404, detail |-> <<"Job not found: ", job_id>>]
        ELSE IF status.job.status = "failed"
          THEN [status_code |-> 200,
                body |-> [job_id        |-> job_id,
                          status        |-> "failed",
                          error_code    |-> Get(status.job, "error_code", "UNKNOWN"),
                          error_message |-> Get(status.job, "error_message", <<"Processing failed">>)]]
          ELSE IF status.job.status # "completed"
            THEN [status_code |-> 200,
                  body |-> [job_id  |-> job_id,
                            status  |-> status.job.status,
                            message |-> "Job is still processing. Check /api/status/{job_id} for progress."]]
            ELSE [status_code |-> 200,
                  body |-> [job_id       |-> job_id,
                            status       |-> "completed",
                            files        |-> Get(status.job, "files", << >>),
                            metadata     |-> Get(status.job, "metadata", << >>),
                            created_at   |-> status.job.created_at,
                            completed_at |-> Get(status.job, "completed_at", "None")]]

\* ------------------------------------------------- services/vectorization.py
\* VectorizationService.__init__: raises when potrace is not on the PATH
VectorizationService_init(mode) ==
  IF mode = "missing"
    THEN [raised |-> TRUE,
          error  |-> VectorizationError(<<"Potrace CLI not found. Please install it via the system package manager.">>)]
    ELSE [raised |-> FALSE]

\* _run_potrace(bmp, svg, "svg"): the error it raises, if any
run_potrace(mode) ==
  CASE mode = "nonzero"  -> [raised |-> TRUE,
                             error  |-> VectorizationError(<<"Potrace failed: ", "stderr">>)]
    [] mode = "nooutput" -> [raised |-> TRUE,
                             error  |-> VectorizationError(<<"Potrace completed but ", "SVG", " file was not created">>)]
    [] mode = "timeout"  -> [raised |-> TRUE,
                             error  |-> VectorizationError(<<"Potrace timed out while generating vector output">>)]
    [] mode = "notfound" -> [raised |-> TRUE,
                             error  |-> VectorizationError(<<"Potrace CLI not found at ", "potrace_path">>)]
    [] mode = "execerr"  -> [raised |-> TRUE,
                             error  |-> OtherError("OSError", <<"Exec format error">>)]
    [] OTHER             -> [raised |-> FALSE]

\* what the two cairosvg transcodes can do
TranscodeOutcomes == {"ok", "raises", "nofile"}

\* _convert_svg_to_eps / _convert_svg_to_pdf: every Exception, its own
\* "not created" included, is re-raised as VectorizationError
convert_svg(fmt, outcome) ==
  CASE outcome = "raises" -> [raised |-> TRUE,
                              error  |-> VectorizationError(<<"Failed to convert SVG to ", fmt, ": ", "cairosvg error">>)]
    [] outcome = "nofile" -> [raised |-> TRUE,
                              error  |-> VectorizationError(<<"Failed to convert SVG to ", fmt, ": ", fmt, " file was not created">>)]
    [] OTHER              -> [raised |-> FALSE]

\* a vectorize that runs potrace a second time when the first run failed
vectorize_retrying(dir, path, mode) ==
  LET bmp == {[raised   |-> TRUE,
               error    |-> VectorizationError(<<"Failed to convert image to BMP: ", "PIL error">>),
               written  |-> {},
               attempts |-> <<"bmp">>]}
      svg == run_potrace(mode)
      transcodes ==
        {LET eps == convert_svg("EPS", e)
             pdf == convert_svg("PDF", p)
         IN  IF eps.raised
               THEN [raised |-> TRUE, error |-> eps.error, written |-> {<<"output", ".svg">>},
                     attempts |-> <<"bmp", "svg", "eps">>]
               ELSE IF pdf.raised
                 THEN [raised |-> TRUE, error |-> pdf.error,
                       written |-> {<<"output", ".svg">>, <<"output", ".eps">>},
                       attempts |-> <<"bmp", "svg", "eps", "pdf">>]
                 ELSE [raised   |-> FALSE,
                       written  |-> {<<"output", ".svg">>, <<"output", ".eps">>, <<"output", ".pdf">>},
                       attempts |-> <<"bmp", "svg", "eps", "pdf">>,
                       result   |-> [svg |-> <<"output", ".svg">>,
                                     eps |-> <<"output", ".eps">>,
                                     pdf |-> <<"output", ".pdf">>]]
           : e \in TranscodeOutcomes, p \in TranscodeOutcomes}
  IN  IF path \notin dir
        THEN bmp
        ELSE bmp \cup (IF svg.raised
                         THEN {[raised |-> TRUE, error |-> svg.error, written |-> {},
                                attempts |-> <<"bmp", "svg", "svg">>]}
                         ELSE transcodes)

\* vectorize(input_path, output_dir): the outcomes the call can have, with
\* the operations it attempted, in order. Image.open fails on an input that
\* is not there; the temporary bitmap is removed by the finally clause on
\* every path
vectorize(dir, path, mode) ==
  LET bmp == {[raised   |-> TRUE,
               error    |-> VectorizationError(<<"Failed to convert image to BMP: ", "PIL error">>),
               written  |-> {},
               attempts |-> <<"bmp">>]}
      svg == run_potrace(mode)
      transcodes ==
        {LET eps == convert_svg("EPS", e)
             pdf == convert_svg("PDF", p)
         IN  IF eps.raised
               THEN [raised |-> TRUE, error |-> eps.error, written |-> {<<"output", ".svg">>},
                     attempts |-> <<"bmp", "svg", "eps">>]
               ELSE IF pdf.raised
                 THEN [raised |-> TRUE, error |-> pdf.error,
                       written |-> {<<"output", ".svg">>, <<"output", ".eps">>},
                       attempts |-> <<"bmp", "svg", "eps", "pdf">>]
                 ELSE [raised   |-> FALSE,
                       written  |-> {<<"output", ".svg">>, <<"output", ".eps">>, <<"output", ".pdf">>},
                       attempts |-> <<"bmp", "svg", "eps", "pdf">>,
                       result   |-> [svg |-> <<"output", ".svg">>,
                                     eps |-> <<"output", ".eps">>,
                                     pdf |-> <<"output", ".pdf">>]]
           : e \in TranscodeOutcomes, p \in TranscodeOutcomes}
  IN  IF path \notin dir
        THEN bmp
        ELSE bmp \cup (IF svg.raised
                         THEN {[raised |-> TRUE, error |-> svg.error, written |-> {},
                                attempts |-> <<"bmp", "svg">>]}
                         ELSE transcodes)

\* ----------------------------------------------- services/image_processing.py
\* ImageProcessingService.MAX_DIMENSION
MAX_DIMENSION == 2000

\* the widths and heights of the images _resize_if_needed is called on
Dimensions == {1, 2, 1000, 1999, 2000, 2001, 2105, 3000, 4210, 8000}

\* the pairs (x, y) of these dimensions, x <= y, for which the double
\* x * (2000 / y) is just below the integer x * 2000 / y: 2000 / y is rounded
\* to 53 bits first, and the product loses the last bit
RoundedBelow == {<<2105, 2105>>, <<2105, 4210>>, <<4210, 4210>>}

\* int(x * (self.MAX_DIMENSION / y)) in double arithmetic, for x <= y
scaled(x, y) ==
  ((x * MAX_DIMENSION) \div y) - (IF <<x, y>> \in RoundedBelow THEN 1 ELSE 0)

\* _resize_if_needed(img): the size of the image it returns; Image.resize
\* refuses a size with a dimension of 0
resize_if_needed(width, height) ==
  IF width <= MAX_DIMENSION /\ height <= MAX_DIMENSION
    THEN [raised |-> FALSE, size |-> <<width, height>>]
    ELSE LET new_size == IF width > height
                           THEN <<MAX_DIMENSION, scaled(height, width)>>
                           ELSE <<scaled(width, height), MAX_DIMENSION>>
         IN  IF new_size[1] = 0 \/ new_size[2] = 0
               THEN [raised    |-> TRUE,
                     error     |-> OtherError("ValueError", <<"height and width must be > 0">>),
                     requested |-> new_size]
               ELSE [raised |-> FALSE, size |-> new_size]

\* get_remove_background(): the function or None, the value REMBG_AVAILABLE
\* is left with, or the exception that is not an ImportError
get_remove_background(available, mode) ==
  IF available = "None"
    THEN CASE mode = "absent"     -> [raised |-> FALSE, func |-> "None", available |-> "False"]
           [] mode = "load_fails" -> [raised    |-> TRUE,
                                      error     |-> OtherError("OSError", <<"cannot load onnxruntime">>),
                                      available |-> "None"]
           [] OTHER               -> [raised |-> FALSE, func |-> "remove_bg", available |-> "True"]
    ELSE [raised    |-> FALSE,
          func      |-> IF available = "True" THEN "remove_bg" ELSE "None",
          available |-> available]

\* a _remove_background that hands back a copy of img when there is no
\* capability
remove_background_copies(available, mode) ==
  LET remove_bg_func == get_remove_background(available, mode)
  IN  IF remove_bg_func.raised
        THEN remove_bg_func
        ELSE IF remove_bg_func.func # "None" /\ mode = "raises"
          THEN [raised    |-> TRUE,
                error     |-> OtherError("RuntimeError", <<"rembg inference failed">>),
                available |-> remove_bg_func.available]
          ELSE [raised |-> FALSE, same_img |-> FALSE, available |-> remove_bg_func.available]

\* ImageProcessingService._remove_background(img): img itself when there is
\* no capability, a new image, or the exception of the capability
remove_background(available, mode) ==
  LET remove_bg_func == get_remove_background(available, mode)
  IN  IF remove_bg_func.raised
        THEN remove_bg_func
        ELSE IF remove_bg_func.func = "None"
          THEN [raised |-> FALSE, same_img |-> TRUE, available |-> remove_bg_func.available]
          ELSE IF mode = "raises"
            THEN [raised    |-> TRUE,
                  error     |-> OtherError("RuntimeError", <<"rembg inference failed">>),
                  available |-> remove_bg_func.available]
            ELSE [raised |-> FALSE, same_img |-> FALSE, available |-> remove_bg_func.available]

\* a preprocess whose step 3 is not wrapped in try/except: the exception of
\* the capability leaves the call
preprocess_rembg_fatal(path, available, mode) ==
  LET processed == remove_background(available, mode)
  IN  {[raised    |-> TRUE,
        error     |-> ProcessingError(<<"Failed to open image: ", "cannot identify image file">>),
        written   |-> {},
        available |-> available],
       [raised    |-> TRUE,
        error     |-> OtherError("OSError", <<"image file is truncated">>),
        written   |-> {},
        available |-> available],
       [raised    |-> TRUE,
        error     |-> OtherError("OSError", <<"No space left on device">>),
        written   |-> {},
        available |-> available]}
      \cup
      (IF processed.raised
         THEN {[raised    |-> TRUE,
                error     |-> processed.error,
                written   |-> {normalized_name},
                available |-> processed.available]}
         ELSE {[raised    |-> TRUE,
                error     |-> OtherError("OSError", <<"No space left on device">>),
                written   |-> {normalized_name},
                available |-> processed.available]}
              \cup
              {[raised    |-> FALSE,
                written   |-> {normalized_name, preprocessed_name},
                available |-> processed.available,
                preprocessed_img |-> IF processed.same_img THEN "img" ELSE "processed_img",
                result    |-> [original_format    |-> strip_dot[suffix(path)],
                               background_removed |-> ~processed.same_img,
                               original_size      |-> sz,
                               normalized_path    |-> normalized_name,
                               preprocessed_path  |-> preprocessed_name]]
                 : sz \in ImageSizes})

\* preprocess(input_path, output_dir, job_id): the outcomes the call can have.
\* Only Image.open is wrapped into ProcessingError; convert / getdata /
\* resize / save raise whatever PIL or the OS raises. Step 3 catches every
\* Exception of the background removal and goes on with the image it had.
\* preprocessed_img names the image object saved as the preprocessed
\* artifact: img, the one saved as the normalized artifact, or processed_img.
preprocess(path, available, mode) ==
  LET processed == remove_background(available, mode)
      background_removed == ~processed.raised /\ ~processed.same_img
  IN  {[raised    |-> TRUE,
        error     |-> ProcessingError(<<"Failed to open image: ", "cannot identify image file">>),
        written   |-> {},
        available |-> available],
       [raised    |-> TRUE,
        error     |-> OtherError("OSError", <<"image file is truncated">>),
        written   |-> {},
        available |-> available],
       [raised    |-> TRUE,
        error     |-> OtherError("OSError", <<"No space left on device">>),
        written   |-> {},
        available |-> available],
       [raised    |-> TRUE,
        error     |-> OtherError("OSError", <<"No space left on device">>),
        written   |-> {normalized_name},
        available |-> processed.available]}
      \cup
      {[raised    |-> FALSE,
        written   |-> {normalized_name, preprocessed_name},
        available |-> processed.available,
        preprocessed_img |-> IF background_removed THEN "processed_img" ELSE "img",
        result    |-> [original_format    |-> strip_dot[suffix(path)],
                       background_removed |-> background_removed,
                       original_size      |-> sz,
                       normalized_path    |-> normalized_name,
                       preprocessed_path  |-> preprocessed_name]]
         : sz \in ImageSizes}

\* ----------------------------------------------------- services/storage.py
\* save_file_from_path(job_id, source_path, filename): copy inside the job
\* directory; FileNotFoundError when the source is gone
save_file_from_path(dir, source, filename, copy_ok) ==
  IF source \notin dir
    THEN [raised |-> TRUE, error |-> OtherError("FileNotFoundError", <<"Source file not found: ", source>>)]
    ELSE IF ~copy_ok
      THEN [raised |-> TRUE, error |-> OtherError("OSError", <<"No space left on device">>)]
      ELSE [raised |-> FALSE, dir |-> dir \cup {filename}]

\* get_file_path(job_id, filename): the path when jobs/<job_id>/<filename>
\* exists, None otherwise
get_file_path(jobs_path, job_id, filename) ==
  IF job_id \in DOMAIN jobs_path /\ filename \in jobs_path[job_id]
    THEN [found |-> TRUE, path |-> <<"jobs", job_id, filename>>]
    ELSE [found |-> FALSE]

\* ------------------------------------------------------ api/routes.py
\* download_file's content_types dict
content_types ==
  [x \in {".svg", ".eps", ".pdf", ".png", ".jpg", ".jpeg", ".heic"} |->
     CASE x = ".svg"  -> "image/svg+xml"
       [] x = ".eps"  -> "application/postscript"
       [] x = ".pdf"  -> "application/pdf"
       [] x = ".png"  -> "image/png"
       [] x = ".jpg"  -> "image/jpeg"
       [] x = ".jpeg" -> "image/jpeg"
       [] x = ".heic" -> "image/heic"]

\* file_path.suffix.lower() of a stored file
path_suffix(filename) ==
  IF filename[2] \in {"_normalized.png", "_preprocessed.png"} THEN ".png" ELSE filename[2]

\* GET /files/{job_id}/{filename}: the response; the job's record is not read
download_file(job_id, filename) ==
  LET file_path == get_file_path(storage, job_id, filename)
  IN  IF ~file_path.found
        THEN [status_code |-> 404, detail |-> <<"File not found: ", filename>>]
        ELSE [status_code |-> 200,
              path        |-> file_path.path,
              media_type  |-> Get(content_types, path_suffix(filename), "application/octet-stream"),
              filename    |-> filename]

\* ------------------------------------------- process_job, step by step
\* one set_job_status call of the try block, then on to the next position
checkpoint(j, kwargs, next) ==
  /\ job_status' = set_job_status(job_status, j, kwargs)
  /\ pc' = [pc EXCEPT ![j] = next]
  /\ UNCHANGED <<caught, ret>>

\* a failure path that records the failure and then puts the job back at
\* the entry of process_job for another run
fail_requeue(j, e) ==
  /\ job_status' = handle(job_status, j, e)
  /\ caught' = Put(caught, j, e)
  /\ ret' = Put(ret, j, [outcome |-> "returned", value |-> failed_result(j, e)])
  /\ pc' = [pc EXCEPT ![j] = "created"]

\* an exception raised inside the try block: the matching except clause
\* records the failure and process_job returns its dict
fail(j, e) ==
  /\ job_status' = handle(job_status, j, e)
  /\ caught' = Put(caught, j, e)
  /\ ret' = Put(ret, j, [outcome |-> "returned", value |-> failed_result(j, e)])
  /\ pc' = [pc EXCEPT ![j] = "done"]

\* an exception raised outside the try block leaves process_job
propagate(j, e) ==
  /\ ret' = Put(ret, j, [outcome |-> "raised", error |-> e])
  /\ pc' = [pc EXCEPT ![j] = "raised"]
  /\ UNCHANGED <<job_status, caught>>

\* the keyword arguments of the checkpoints of the try block, in order
starting_kwargs    == [status |-> "processing", progress |-> 5, stage |-> "Starting..."]

saving_kwargs      == [progress |-> 10, stage |-> "Saving original..."]

removing_kwargs    == [progress |-> 20, stage |-> "Removing background..."]

preprocessed_kwargs == [progress |-> 40, stage |-> "Image preprocessed"]

converting_kwargs_lower == [progress |-> 30, stage |-> "Converting to vectors..."]

converting_kwargs  == [progress |-> 50, stage |-> "Converting to vectors..."]

vectorized_kwargs_full == [progress |-> 100, stage |-> "Vectorization complete"]

vectorized_kwargs  == [progress |-> 80, stage |-> "Vectorization complete"]

finalizing_kwargs_lower == [progress |-> 70, stage |-> "Finalizing..."]

finalizing_kwargs  == [progress |-> 90, stage |-> "Finalizing..."]

\* lines 108-117: the three services are constructed before the try, then
\* the first status update
process_job_start(j) ==
  /\ pc[j] = "created"
  /\ LET vectorizer == VectorizationService_init(potrace)
     IN  IF vectorizer.raised
           THEN propagate(j, vectorizer.error)
           ELSE checkpoint(j, starting_kwargs, "p5")
  /\ UNCHANGED <<storage, input_path, preprocess_result, potrace, rembg, REMBG_AVAILABLE, request_vars, validator_vars, held, calls, loop_vars, resize_vars, settings>>

\* a run without the existence check: the copy of the original is the first
\* to miss the file
input_not_found_at_copy(path) ==
  OtherError("FileNotFoundError", <<"Source file not found: ", path>>)

\* lines 120-121: raise ProcessingError(f"Input file not found: {input_path}")
input_not_found(path) == ProcessingError(<<"Input file not found: ", path>>)

\* lines 119-127: the input must exist (it may have been removed since the
\* upload wrote it), the job directory is resolved, progress 10
process_job_check_input(j) ==
  /\ pc[j] = "p5"
  /\ \E removed \in BOOLEAN, mkdir_ok \in BOOLEAN :
       LET dir == IF removed THEN storage[j] \ {input_path[j]} ELSE storage[j]
       IN  /\ storage' = Put(storage, j, dir)
           /\ IF input_path[j] \notin dir
                THEN fail(j, input_not_found(input_path[j]))
                ELSE IF ~mkdir_ok
                  THEN fail(j, OtherError("OSError", <<"Permission denied">>))
                  ELSE checkpoint(j, saving_kwargs, "p10")
  /\ UNCHANGED <<input_path, preprocess_result, potrace, rembg, REMBG_AVAILABLE, request_vars, validator_vars, held, calls, loop_vars, resize_vars, settings>>

\* lines 128-133: the original is copied under its canonical name, progress 20
process_job_save_original(j) ==
  /\ pc[j] = "p10"
  /\ \E copy_ok \in BOOLEAN :
       LET original_filename == original_name(suffix(input_path[j]))
           saved == save_file_from_path(storage[j], input_path[j], original_filename, copy_ok)
       IN  /\ calls' = [calls EXCEPT ![j] = Append(@, [op     |-> "save_original",
                                                      input  |-> input_path[j],
                                                      raised |-> saved.raised])]
           /\ IF saved.raised
                THEN fail(j, saved.error) /\ UNCHANGED storage
                ELSE /\ storage' = Put(storage, j, saved.dir)
                     /\ checkpoint(j, removing_kwargs, "p20")
  /\ UNCHANGED <<input_path, preprocess_result, potrace, rembg, REMBG_AVAILABLE, request_vars, validator_vars, held, loop_vars, resize_vars, settings>>

\* lines 135-141: the preprocessor runs, progress 40
process_job_preprocess(j) ==
  /\ pc[j] = "p20"
  /\ \E out \in preprocess(input_path[j], REMBG_AVAILABLE, rembg) :
       /\ storage' = Put(storage, j, storage[j] \cup out.written)
       /\ REMBG_AVAILABLE' = out.available
       /\ calls' = [calls EXCEPT ![j] = Append(@,
            IF out.raised
              THEN [op |-> "preprocess", input |-> input_path[j], raised |-> TRUE]
              ELSE [op |-> "preprocess", input |-> input_path[j], raised |-> FALSE,
                    out |-> out])]
       /\ IF out.raised
            THEN fail(j, out.error) /\ UNCHANGED preprocess_result
            ELSE /\ preprocess_result' = Put(preprocess_result, j, out.result)
                 /\ checkpoint(j, preprocessed_kwargs, "p40")
  /\ UNCHANGED <<input_path, potrace, rembg, request_vars, validator_vars, held, loop_vars, resize_vars, settings>>

\* line 144: progress 50
process_job_mark_vectorizing(j) ==
  /\ pc[j] = "p40"
  /\ checkpoint(j, converting_kwargs, "p50")
  /\ UNCHANGED <<storage, input_path, preprocess_result, potrace, rembg, REMBG_AVAILABLE, request_vars, validator_vars, held, calls, loop_vars, resize_vars, settings>>

\* a vectorizer call on the file that was uploaded
vectorize_input_upload(j) == input_path[j]

\* lines 146-148: input_path=preprocess_result["preprocessed_path"]
vectorize_input(j) == preprocess_result[j].preprocessed_path

\* lines 146-151: the vectorizer runs on the preprocessed artifact, progress 80
process_job_vectorize(j) ==
  /\ pc[j] = "p50"
  /\ \E out \in vectorize(storage[j], vectorize_input(j), potrace) :
       /\ storage' = Put(storage, j, storage[j] \cup out.written)
       /\ calls' = [calls EXCEPT ![j] = Append(@, [op     |-> "vectorize",
                                                   input  |-> vectorize_input(j),
                                                   raised |-> out.raised,
                                                   out    |-> out])]
       /\ IF out.raised
            THEN fail(j, out.error)
            ELSE checkpoint(j, vectorized_kwargs, "p80")
  /\ UNCHANGED <<input_path, preprocess_result, potrace, rembg, REMBG_AVAILABLE, request_vars, validator_vars, held, loop_vars, resize_vars, settings>>

\* line 154: progress 90
process_job_mark_finalizing(j) ==
  /\ pc[j] = "p80"
  /\ checkpoint(j, finalizing_kwargs, "p90")
  /\ UNCHANGED <<storage, input_path, preprocess_result, potrace, rembg, REMBG_AVAILABLE, request_vars, validator_vars, held, calls, loop_vars, resize_vars, settings>>

\* round(time.time() - start_time, 2)
ProcessingTimes == {0}

\* a files dict that takes the original for a PNG whatever was uploaded
build_files_png(job_id, original_filename) ==
  [original |-> file_url(job_id, original_name(".png")),
   svg      |-> file_url(job_id, <<"output", ".svg">>),
   eps      |-> file_url(job_id, <<"output", ".eps">>),
   pdf      |-> file_url(job_id, <<"output", ".pdf">>)]

\* lines 160-165: the files dict
build_files(job_id, original_filename) ==
  [original |-> file_url(job_id, original_filename),
   svg      |-> file_url(job_id, <<"output", ".svg">>),
   eps      |-> file_url(job_id, <<"output", ".eps">>),
   pdf      |-> file_url(job_id, <<"output", ".pdf">>)]

\* lines 168-173: the metadata dict
build_metadata(result, processing_time) ==
  [original_format         |-> result.original_format,
   original_size           |-> result.original_size,
   background_removed      |-> result.background_removed,
   processing_time_seconds |-> processing_time]

\* a last update that forgets the status
complete_kwargs_without_status(files, metadata) ==
  [progress     |-> 100,
   stage        |-> "Complete",
   files        |-> files,
   metadata     |-> metadata,
   completed_at |-> utcnow]

\* a last update that forgets the completion time
complete_kwargs_without_completed_at(files, metadata) ==
  [status       |-> "completed",
   progress     |-> 100,
   stage        |-> "Complete",
   files        |-> files,
   metadata     |-> metadata]

\* lines 176-184: what the last update of a successful run writes
complete_kwargs(files, metadata) ==
  [status       |-> "completed",
   progress     |-> 100,
   stage        |-> "Complete",
   files        |-> files,
   metadata     |-> metadata,
   completed_at |-> utcnow]

\* lines 156-191: files and metadata are assembled, the job is marked
\* complete and process_job returns its dict
process_job_complete(j) ==
  /\ pc[j] = "p90"
  /\ \E processing_time \in ProcessingTimes :
       LET files    == build_files(j, original_name(suffix(input_path[j])))
           metadata == build_metadata(preprocess_result[j], processing_time)
       IN  /\ job_status' = set_job_status(job_status, j, complete_kwargs(files, metadata))
           /\ ret' = Put(ret, j, [outcome |-> "returned",
                                  value   |-> [status   |-> "completed",
                                               job_id   |-> j,
                                               files    |-> files,
                                               metadata |-> metadata]])
           /\ pc' = [pc EXCEPT ![j] = "done"]
           /\ calls' = [calls EXCEPT ![j] = Append(@, [op     |-> "finalize",
                                                       input  |-> original_name(suffix(input_path[j])),
                                                       raised |-> FALSE])]
  /\ UNCHANGED <<storage, input_path, preprocess_result, caught, potrace, rembg, REMBG_AVAILABLE, request_vars, validator_vars, held, loop_vars, resize_vars, settings>>

\* one step of the process_job call of job j
process_job(j) ==
  \/ process_job_start(j)
  \/ process_job_check_input(j)
  \/ process_job_save_original(j)
  \/ process_job_preprocess(j)
  \/ process_job_mark_vectorizing(j)
  \/ process_job_vectorize(j)
  \/ process_job_mark_finalizing(j)
  \/ process_job_complete(j)

Next ==
  \/ \E b \in UploadBuffers(Cardinality(DOMAIN job_status) + 1), f \in Filenames :
       upload_file(b, f)
  \/ \E j \in JobIds : process_job_start(j)
  \/ \E j \in JobIds : process_job_check_input(j)
  \/ \E j \in JobIds : process_job_save_original(j)
  \/ \E j \in JobIds : process_job_preprocess(j)
  \/ \E j \in JobIds : process_job_mark_vectorizing(j)
  \/ \E j \in JobIds : process_job_vectorize(j)
  \/ \E j \in JobIds : process_job_mark_finalizing(j)
  \/ \E j \in JobIds : process_job_complete(j)

Spec == Init /\ [][Next]_vars

\* process_job is an ordinary synchronous call: once entered it keeps
\* executing, so a step of it that can be taken is eventually taken
FairSpec == Spec /\ \A j \in JobIds : WF_vars(process_job(j))

\* --------------------------------------- cleanup_temp_files and the runs
\* cleanup_temp_files' remove_patterns
remove_patterns == {"*_normalized.png", "*_preprocessed.png", "temp_*"}

\* job_dir.glob(pattern) on the names of the job directory; the only temp_
\* file the services write is vectorize's temp_input.bmp
glob(dir, pattern) ==
  {f \in dir :
     CASE pattern = "*_normalized.png"   -> f[2] = "_normalized.png"
       [] pattern = "*_preprocessed.png" -> f[2] = "_preprocessed.png"
       [] pattern = "temp_*"             -> f[1] = "temp_input"}

\* cleanup_temp_files(job_id): nothing when the job directory is not there,
\* else every file that matches one of the patterns is unlinked
cleanup_temp_files(job_id) ==
  /\ storage' = IF job_id \notin DOMAIN storage
                  THEN storage
                  ELSE Put(storage, job_id,
                           storage[job_id] \ UNION {glob(storage[job_id], pattern) : pattern \in remove_patterns})
  /\ UNCHANGED <<job_status, pc, input_path, preprocess_result, caught, ret, potrace, rembg,
                 REMBG_AVAILABLE, request_vars, validator_vars, held, calls, loop_vars, resize_vars, settings>>

\* on a deployment that traces and has no background removal
CleanupInit == Init /\ potrace = "ok" /\ rembg = "absent"

CleanupNext ==
  \/ Next
  \/ \E id \in JobIds : cleanup_temp_files(id)

CleanupSpec == CleanupInit /\ [][CleanupNext]_vars

\* --------------------------------- the uploads under each configuration
\* Settings.max_file_size_bytes
max_file_size_bytes(self) == self.max_file_size_mb * 1024 * 1024

\* the values MAX_FILE_SIZE_MB is configured with; 10 is the default
ConfiguredMb == {5, 10, 20}

\* well-formed buffers of each type, at each configured maximum and one byte
\* over it
ConfigRequests ==
  {[head |-> SampleBuffer[t].head, size |-> mb * 1024 * 1024 + over] :
     t \in DOMAIN SampleBuffer, mb \in ConfiguredMb, over \in {0, 1}}

ConfigInit ==
  /\ job_status = << >>
  /\ storage = << >>
  /\ pc = [j \in JobIds |-> "none"]
  /\ input_path = << >>
  /\ preprocess_result = << >>
  /\ caught = << >>
  /\ ret = << >>
  /\ potrace = "ok"
  /\ rembg = "absent"
  /\ REMBG_AVAILABLE = "None"
  /\ content = NoContent
  /\ upload_outcome = [state |-> "none"]
  /\ max_size = MAX_FILE_SIZE
  /\ validation = NotCalled
  /\ held = [state |-> "none"]
  /\ calls = [j \in JobIds |-> << >>]
  /\ response = << >>
  /\ status_request = [state |-> "none"]
  /\ img_size = <<50, 50>>
  /\ resized = [called |-> FALSE]
  /\ settings \in [max_file_size_mb : ConfiguredMb]

ConfigNext == \E b \in ConfigRequests, f \in Filenames : upload_file(b, f)

ConfigSpec == ConfigInit /\ [][ConfigNext]_vars

\* ------------------------------------------- _resize_if_needed alone
\* _resize_if_needed is called on an image of a size drawn at the start
ResizeInit ==
  /\ job_status = << >>
  /\ storage = << >>
  /\ pc = [j \in JobIds |-> "none"]
  /\ input_path = << >>
  /\ preprocess_result = << >>
  /\ caught = << >>
  /\ ret = << >>
  /\ potrace = "ok"
  /\ rembg = "absent"
  /\ REMBG_AVAILABLE = "None"
  /\ content = NoContent
  /\ upload_outcome = [state |-> "none"]
  /\ max_size = MAX_FILE_SIZE
  /\ validation = NotCalled
  /\ held = [state |-> "none"]
  /\ calls = [j \in JobIds |-> << >>]
  /\ response = << >>
  /\ status_request = [state |-> "none"]
  /\ img_size \in Dimensions \X Dimensions
  /\ resized = [called |-> FALSE]
  /\ settings = [max_file_size_mb |-> 10]

call_resize_if_needed ==
  /\ ~resized.called
  /\ resized' = [called |-> TRUE, out |-> resize_if_needed(img_size[1], img_size[2])]
  /\ UNCHANGED <<job_status, storage, pc, input_path, preprocess_result, caught, ret,
                 potrace, rembg, REMBG_AVAILABLE, request_vars, validator_vars, held,
                 calls, loop_vars, img_size, settings>>

ResizeNext == call_resize_if_needed

ResizeSpec == ResizeInit /\ [][ResizeNext]_vars

\* ------------------------------------ process_job called on its own
\* process_job is a function of the module: a worker or a script calls it as
\* process_job(job_id=..., input_path=...) with an id of its choice, for which
\* create_job was not called, and a file that is there
call_process_job(job_id, ext) ==
  /\ pc[job_id] = "none"
  /\ job_id \notin DOMAIN job_status
  /\ pc' = [pc EXCEPT ![job_id] = "created"]
  /\ input_path' = Put(input_path, job_id, upload_name(ext))
  /\ storage' = Put(storage, job_id, {upload_name(ext)})
  /\ UNCHANGED <<job_status, preprocess_result, caught, ret, potrace, rembg, REMBG_AVAILABLE,
                 request_vars, validator_vars, held, calls, loop_vars, resize_vars, settings>>

WorkerNext ==
  \/ \E id \in JobIds : call_process_job(id, ext_map["image/png"])
  \/ \E j \in JobIds : process_job(j)

WorkerSpec == Init /\ [][WorkerNext]_vars

\* ------------------------------------------- the upload requests alone
\* POST /upload with any buffer, valid or not, on a deployment that traces;
\* the runs of the accepted jobs have not taken a step yet
UploadInit == Init /\ potrace = "ok" /\ rembg = "absent"

\* the buffers of these requests: empty, too short, well inside the cap,
\* exactly at the cap and one byte over it, of each type and of none
UploadRequests ==
  {b \in Buffers :
     /\ b.size \in {0, 11, 14, MAX_FILE_SIZE, MAX_FILE_SIZE + 1}
     /\ b.size >= SignatureWindow =>
          /\ SubSeq(b.head, 5, 8) \in {<<13, 10, 26, 10>>, FTYP}
          /\ SubSeq(b.head, 9, 12) \in {heic, avif}}

UploadNext == \E b \in UploadRequests, f \in Filenames : upload_file(b, f)

UploadSpec == UploadInit /\ [][UploadNext]_vars

\* ------------------------------------------------ the validators alone
\* validate_file_type(content) and validate_file_size(content, max_size) are
\* called on a buffer and a maximum drawn at the start
ValidationInit ==
  /\ job_status = << >>
  /\ storage = << >>
  /\ pc = [j \in JobIds |-> "none"]
  /\ input_path = << >>
  /\ preprocess_result = << >>
  /\ caught = << >>
  /\ ret = << >>
  /\ potrace = "ok"
  /\ rembg = "absent"
  /\ REMBG_AVAILABLE = "None"
  /\ content \in Buffers
  /\ upload_outcome = [state |-> "none"]
  /\ max_size \in MaxSizes
  /\ validation = NotCalled
  /\ held = [state |-> "none"]
  /\ calls = [j \in JobIds |-> << >>]
  /\ response = << >>
  /\ status_request = [state |-> "none"]
  /\ img_size = <<50, 50>>
  /\ resized = [called |-> FALSE]
  /\ settings = [max_file_size_mb |-> 10]

call_validate_file_type ==
  /\ validation' = [validation EXCEPT
                      !.type = Update(validate_file_type(content), [called |-> TRUE])]
  /\ UNCHANGED <<job_status, storage, pc, input_path, preprocess_result, caught,
                 ret, potrace, rembg, REMBG_AVAILABLE, request_vars, max_size, held, calls, loop_vars, resize_vars, settings>>

call_validate_file_size ==
  /\ validation' = [validation EXCEPT
                      !.size = Update(validate_file_size(content, max_size), [called |-> TRUE])]
  /\ UNCHANGED <<job_status, storage, pc, input_path, preprocess_result, caught,
                 ret, potrace, rembg, REMBG_AVAILABLE, request_vars, max_size, held, calls, loop_vars, resize_vars, settings>>

ValidationNext == call_validate_file_type \/ call_validate_file_size

ValidationSpec == ValidationInit /\ [][ValidationNext]_vars

\* ------------------------------------- the callers of get_job_status
\* A caller (a route, a poller in the same process) calls get_job_status at
\* any time between the steps of the runs and keeps what it got. For an id no
\* job has it gets None. Otherwise dict.get hands out the stored dict object
\* itself, so what the caller holds is a reference to the job's record.
call_get_job_status(job_id) ==
  /\ held' = IF get_job_status(job_id).found
               THEN [state |-> "ref", job_id |-> job_id, written |-> FALSE]
               ELSE [state |-> "not_found", job_id |-> job_id]
  /\ UNCHANGED <<job_status, storage, pc, input_path, preprocess_result, caught,
                 ret, potrace, rembg, REMBG_AVAILABLE, request_vars, validator_vars,
                 calls, loop_vars, resize_vars, settings>>

\* the value of what the caller holds: the dict the reference points to
held_value == job_status[held.job_id]

\* the caller assigns a key of the dict it holds: returned["stage"] = "seen"
caller_writes ==
  /\ held.state = "ref"
  /\ ~held.written
  /\ job_status' = Put(job_status, held.job_id, Put(job_status[held.job_id], "stage", "seen"))
  /\ held' = [held EXCEPT !.written = TRUE]
  /\ UNCHANGED <<storage, pc, input_path, preprocess_result, caught,
                 ret, potrace, rembg, REMBG_AVAILABLE, request_vars, validator_vars,
                 calls, loop_vars, resize_vars, settings>>

\* on a deployment that traces and has no background removal
ReadInit == Init /\ potrace = "ok" /\ rembg = "absent"

ReadNext ==
  \/ Next
  \/ \E id \in JobIds : call_get_job_status(id)
  \/ caller_writes

ReadSpec == ReadInit /\ [][ReadNext]_vars

TypeOK ==
  /\ DOMAIN job_status \subseteq JobIds
  /\ \A j \in DOMAIN job_status :
       job_status[j].status \in {"queued", "processing", "completed", "failed"}
  /\ potrace \in PotraceModes
  /\ rembg \in RembgOutcomes
  /\ REMBG_AVAILABLE \in {"None", "True", "False"}
  /\ \A j \in JobIds :
       pc[j] \in {"none", "created", "p5", "p10", "p20", "p40", "p50", "p80",
                  "p90", "done", "raised"}
  /\ \A j \in JobIds : \A i \in 1..Len(calls[j]) :
       calls[j][i].op \in {"save_original", "preprocess", "vectorize", "finalize"}
  /\ DOMAIN response \subseteq DOMAIN job_status
  /\ status_request.state \in {"none", "sent", "answered"}

\* ---------------------------------------------------- shorthands
Jobs == DOMAIN job_status

Terminal == {"completed", "failed"}

has(j, key) == key \in DOMAIN job_status[j]

\* a process_job call that counts as over as soon as it is entered
ended_at_once(j) == pc[j] # "none"

\* the process_job call of job j is over, by return or by exception
ended(j) == pc[j] \in {"done", "raised"}

\* ------------------------------------- the requests on the event loop
\* The routes are coroutines of one asyncio event loop. upload_file awaits
\* nothing after file.read(): from create_job to its return, the process_job
\* call included, it keeps the loop, and no other handler runs meanwhile.

\* the upload handler of some job holds the loop: it has created the job and
\* has not returned yet
loop_busy == \E j \in JobIds : pc[j] # "none" /\ j \notin DOMAIN response

\* the run of job j is in flight: process_job has written its first update
\* and has not ended
in_flight(j) == pc[j] \in {"p5", "p10", "p20", "p40", "p50", "p80", "p90"}

\* POST /upload reaches its handler, which runs up to the process_job call
request_upload(buffer, filename) ==
  /\ ~loop_busy
  /\ upload_file(buffer, filename)

\* the process_job call of the upload handler of job j, one step of it
request_process_job(j) ==
  /\ j \notin DOMAIN response
  /\ process_job(j)

\* routes.py 90-99: process_job is over; when it returned, the handler reads
\* the job and returns UploadResponse; when it raised, the exception leaves
\* the handler and the framework answers 500
upload_file_respond(j) ==
  /\ j \notin DOMAIN response
  /\ ended(j)
  /\ LET status == get_job_status(j)
     IN  response' = Put(response, j,
           IF pc[j] = "raised"
             THEN [status_code |-> 500, detail |-> <<"Internal Server Error">>]
             ELSE [status_code |-> 200,
                   body |-> [job_id     |-> j,
                             status     |-> status.job.status,
                             created_at |-> status.job.created_at]])
  /\ UNCHANGED <<job_status, storage, pc, input_path, preprocess_result, caught, ret,
                 potrace, rembg, REMBG_AVAILABLE, request_vars, validator_vars, held,
                 calls, status_request, resize_vars, settings>>

\* a client sends GET /status/{job_id}, the one status request that is
\* followed; the request waits for the loop
send_status_request(job_id) ==
  /\ status_request.state = "none"
  /\ status_request' = [state     |-> "sent",
                        job_id    |-> job_id,
                        in_flight |-> in_flight(job_id)]
  /\ UNCHANGED <<job_status, storage, pc, input_path, preprocess_result, caught, ret,
                 potrace, rembg, REMBG_AVAILABLE, request_vars, validator_vars, held,
                 calls, response, resize_vars, settings>>

\* the loop is free: the get_status handler runs and answers the request
answer_status_request ==
  /\ status_request.state = "sent"
  /\ ~loop_busy
  /\ status_request' = [state     |-> "answered",
                        job_id    |-> status_request.job_id,
                        in_flight |-> status_request.in_flight,
                        answer    |-> get_status(status_request.job_id)]
  /\ UNCHANGED <<job_status, storage, pc, input_path, preprocess_result, caught, ret,
                 potrace, rembg, REMBG_AVAILABLE, request_vars, validator_vars, held,
                 calls, response, resize_vars, settings>>

RequestNext ==
  \/ \E b \in UploadBuffers(Cardinality(DOMAIN job_status) + 1), f \in Filenames :
       request_upload(b, f)
  \/ \E j \in JobIds : request_process_job(j)
  \/ \E j \in JobIds : upload_file_respond(j)
  \/ \E id \in JobIds : send_status_request(id)
  \/ answer_status_request

\* on a deployment that traces and on one without potrace, neither with
\* background removal
RequestInit == Init /\ potrace \in {"ok", "missing"} /\ rembg = "absent"

RequestSpec == RequestInit /\ [][RequestNext]_vars

\* the four logical names of the downloadable files of a job
LogicalFiles == {"original", "svg", "eps", "pdf"}

\* GET /files/{job_id}/{filename}: the two path parameters of a file URL
url_job_id(url) == url[2]

url_filename(url) == url[4]

\* the supported types whose signature a buffer carries: the JPEG or the PNG
\* magic at offset 0, the ftyp marker at offset 4 followed by a HEIC/HEIF brand
SignatureTypes(b) ==
  {t \in {"image/jpeg", "image/png", "image/heic"} :
     \/ t = "image/jpeg" /\ Len(b.head) >= 3 /\ SubSeq(b.head, 1, 3) = JPEG_MAGIC
     \/ t = "image/png"  /\ Len(b.head) >= 8 /\ SubSeq(b.head, 1, 8) = PNG_MAGIC
     \/ t = "image/heic" /\ Len(b.head) >= 12 /\ SubSeq(b.head, 5, 8) = FTYP
                         /\ SubSeq(b.head, 9, 12) \in heic_brands}

\* a buffer that is empty, larger than the cap, or of no supported type
InvalidUpload(b) ==
  \/ b.size = 0
  \/ b.size > MAX_FILE_SIZE
  \/ b.size < SignatureWindow
  \/ SignatureTypes(b) = {}

\* the exceptions the background-removal capability can raise, at load time
\* and at run time
RembgErrors ==
  {remove_background("None", "load_fails").error,
   remove_background("True", "raises").error}

\* the two messages validate_file_type rejects a buffer with
TypeRejections ==
  {validate_file_type(NoContent).error.message,
   validate_file_type([head |-> <<0, 0, 0, 0>> \o <<0, 0, 0, 0>> \o <<0, 0, 0, 0>>,
                       size |-> SignatureWindow]).error.message}

\* ------------------------------------------------------------ properties

\* C1: once a job's status is completed or failed, no step of the orchestrator
\* changes its status, progress or stage any more: no transition leaves a
\* terminal state.
C1_TerminalIsFinal ==
  [][\A j \in Jobs :
       job_status[j].status \in Terminal =>
         /\ job_status'[j].status   = job_status[j].status
         /\ job_status'[j].progress = job_status[j].progress
         /\ job_status'[j].stage    = job_status[j].stage]_vars

\* one job has completed and another has failed: whichever ended last took
\* its steps while the other was already terminal
C1_Witness ==
  \E j, k \in Jobs :
    /\ job_status[j].status = "completed"
    /\ job_status[k].status = "failed"

\* C2: whatever a collaborator does, a process_job call that is over has
\* returned a result value (it did not raise) and has left the job completed
\* or failed.
C2_NeverRaises ==
  \A j \in Jobs :
    ended(j) =>
      /\ ret[j].outcome = "returned"
      /\ job_status[j].status \in Terminal

\* C3: every job that is processing is eventually completed or failed.
C3_ProcessingEnds ==
  \A j \in JobIds :
    (j \in Jobs /\ job_status[j].status = "processing")
      ~> (j \in Jobs /\ job_status[j].status \in Terminal)

\* a run that went through an unclassified failure has left Processing
C3_Witness ==
  \E j \in Jobs :
    /\ j \in DOMAIN caught
    /\ caught[j].kind \notin Classified
    /\ pc[j] = "done"
    /\ job_status[j].status \in Terminal

\* C4: a job record has a `files' entry only if its status is completed.
C4_FilesOnlyWhenCompleted ==
  \A j \in Jobs :
    has(j, "files") => job_status[j].status = "completed"

\* a completed job carries its four files while another job, failed after
\* the vectorizer wrote output, carries none
C4_Witness ==
  \E j, k \in Jobs :
    /\ job_status[j].status = "completed"
    /\ DOMAIN job_status[j].files = {"original", "svg", "eps", "pdf"}
    /\ job_status[k].status = "failed"
    /\ <<"output", ".svg">> \in storage[k]
    /\ ~has(k, "files")

\* C5: a job record carries error_code / error_message only if its status is
\* failed, and no record carries both error fields and files.
C5_ErrorOnlyWhenFailed ==
  \A j \in Jobs :
    /\ (has(j, "error_code") \/ has(j, "error_message")) =>
         job_status[j].status = "failed"
    /\ ~((has(j, "error_code") \/ has(j, "error_message")) /\ has(j, "files"))

\* a failed job carries both error fields next to a completed job that
\* carries none
C5_Witness ==
  \E j, k \in Jobs :
    /\ job_status[j].status = "failed"
    /\ has(j, "error_code") /\ has(j, "error_message")
    /\ job_status[k].status = "completed"
    /\ ~has(k, "error_code") /\ ~has(k, "error_message")

\* C6: from one state of a job to the next, both processing, progress does
\* not decrease; two status reads that both see Processing see two such
\* states in order, every state between them being processing too.
C6_ProgressMonotone ==
  [][\A j \in Jobs :
       (job_status[j].status = "processing" /\ job_status'[j].status = "processing")
         => job_status'[j].progress >= job_status[j].progress]_vars

\* a job still processing after all seven checkpoints
C6_Witness ==
  \E j \in Jobs :
    /\ job_status[j].status = "processing"
    /\ job_status[j].progress = 90

C8_PreprocessFailureIsProcessingKind ==
  [][\A j \in Jobs :
       (pc[j] = "p20" /\ pc'[j] = "done") =>
         /\ job_status'[j].status = "failed"
         /\ job_status'[j].error_code = "ProcessingError"
         /\ "files" \notin DOMAIN job_status'[j]]_vars

\* C9: with a tracing capability that always fails, every run that is over
\* and did not already fail before the vectorizer has left the job failed
\* with the vectorization-kind code, progress 0 and no files.
C9_TracingAlwaysFails ==
  \A j \in Jobs :
    (/\ potrace # "ok"
     /\ ended(j)
     /\ (j \in DOMAIN caught => j \in DOMAIN preprocess_result))
      => /\ job_status[j].status = "failed"
         /\ has(j, "error_code")
         /\ job_status[j].error_code = "VectorizationError"
         /\ job_status[j].progress = 0
         /\ ~has(j, "files")

\* C10: an exception caught by the run that is neither ProcessingError nor
\* VectorizationError leaves the job failed with UNEXPECTED_ERROR, progress 0
\* and no files.
C10_UnexpectedErrorRecorded ==
  \A j \in DOMAIN caught :
    caught[j].kind \notin Classified =>
      /\ job_status[j].status = "failed"
      /\ job_status[j].error_code = "UNEXPECTED_ERROR"
      /\ job_status[j].progress = 0
      /\ ~has(j, "files")

\* an OSError of the copy of the original and one of the preprocessor both
\* ended as UNEXPECTED_ERROR
C10_Witness ==
  \E j, k \in DOMAIN caught :
    /\ j # k
    /\ caught[j].kind = "OSError" /\ j \notin DOMAIN preprocess_result
    /\ caught[k].kind = "OSError" /\ <<"original", ".png">> \in storage[k]
    /\ job_status[j].error_code = "UNEXPECTED_ERROR"
    /\ job_status[k].error_code = "UNEXPECTED_ERROR"

\* C11: at the step that makes a job completed, each of the four logical files
\* of its record (original, svg, eps, pdf) is a URL of this job whose file name
\* exists in the job's storage directory: StorageService.get_file_path finds it.
C11_CompletedFilesExist ==
  [][\A j \in Jobs :
       (job_status[j].status # "completed" /\ job_status'[j].status = "completed") =>
         /\ DOMAIN job_status'[j].files = LogicalFiles
         /\ \A f \in LogicalFiles :
              /\ url_job_id(job_status'[j].files[f]) = j
              /\ get_file_path(storage', j, url_filename(job_status'[j].files[f])).found]_vars

\* a job uploaded as JPEG has completed and its four files are in its directory
C11_Witness ==
  \E j \in Jobs :
    /\ job_status[j].status = "completed"
    /\ suffix(input_path[j]) = ".jpg"
    /\ {original_name(".jpg"), <<"output", ".svg">>, <<"output", ".eps">>,
        <<"output", ".pdf">>} \subseteq storage[j]
    /\ \A f \in LogicalFiles :
         get_file_path(storage, j, url_filename(job_status[j].files[f])).found

\* C12: an upload whose buffer is empty, larger than the size cap or of an
\* unsupported type is rejected before any job is created: the request ends
\* with HTTP 400, no job id is issued, and the job-status map, the storage and
\* the positions of the runs are left as they were.
C12_RejectedUploadChangesNothing ==
  [][(request_vars' # request_vars /\ InvalidUpload(content')) =>
       /\ upload_outcome'.state = "rejected"
       /\ upload_outcome'.status_code = 400
       /\ job_status' = job_status
       /\ storage' = storage
       /\ pc' = pc]_vars

\* with a job already created, a well-formed PNG one byte over the cap was
\* refused
C12_Witness ==
  /\ Jobs # {}
  /\ upload_outcome.state = "rejected"
  /\ content.size = MAX_FILE_SIZE + 1
  /\ SignatureTypes(content) = {"image/png"}

\* C19: for every buffer and every maximum, validate_file_size raises exactly
\* when the length is 0 or exceeds the maximum; a buffer of exactly the maximum
\* passes, and when the function returns it returns the length.
C19_SizeValidation ==
  validation.size.called =>
    /\ validation.size.raised <=> (content.size = 0 \/ content.size > max_size)
    /\ validation.size.raised => validation.size.error.kind = "ValidationError"
    /\ ~validation.size.raised => validation.size.value = content.size

\* a buffer of exactly max_size bytes went through
C19_Witness ==
  /\ validation.size.called
  /\ content.size = max_size
  /\ max_size = MAX_FILE_SIZE
  /\ ~validation.size.raised

\* C20: for every buffer of at least the signature window that starts with the
\* JPEG or the PNG signature, or carries a HEIC/HEIF brand in its ftyp box at
\* offset 4, validate_file_type returns a type whose signature the buffer
\* carries; for every buffer that carries no signature, or is shorter than the
\* window, it raises ValidationError.
C20_TypeValidation ==
  validation.type.called =>
    IF content.size >= SignatureWindow /\ SignatureTypes(content) # {}
      THEN /\ ~validation.type.raised
           /\ validation.type.value \in SignatureTypes(content)
      ELSE /\ validation.type.raised
           /\ validation.type.error.kind = "ValidationError"

\* a buffer with brand hevc in its ftyp box was taken for HEIC
C20_Witness ==
  /\ validation.type.called
  /\ ~validation.type.raised
  /\ validation.type.value = "image/heic"
  /\ SubSeq(content.head, 9, 12) = hevc

\* C15: get_result for a failed job always carries the job's error code and
\* message; for a completed job it carries the job's files and metadata and no
\* error field; for a queued or processing job it carries neither; for an id
\* no job has it answers not-found (HTTP 404) and never a failed result.
C15_ResultByStatus ==
  \A id \in JobIds :
    LET r == get_result(id)
    IN  IF id \notin Jobs
          THEN r.status_code = 404 /\ "body" \notin DOMAIN r
          ELSE /\ r.status_code = 200
               /\ r.body.job_id = id
               /\ r.body.status = job_status[id].status
               /\ CASE job_status[id].status = "failed" ->
                         /\ {"error_code", "error_message"} \subseteq DOMAIN r.body
                         /\ r.body.error_code = job_status[id].error_code
                         /\ r.body.error_message = job_status[id].error_message
                         /\ DOMAIN r.body \cap {"files", "metadata"} = {}
                    [] job_status[id].status = "completed" ->
                         /\ {"files", "metadata"} \subseteq DOMAIN r.body
                         /\ r.body.files = job_status[id].files
                         /\ r.body.metadata = job_status[id].metadata
                         /\ DOMAIN r.body \cap {"error_code", "error_message"} = {}
                    [] OTHER ->
                         DOMAIN r.body \cap {"files", "metadata", "error_code", "error_message"} = {}

\* the result of one job is a failure with its code, that of another the
\* four files
C15_Witness ==
  \E j, k \in JobIds :
    /\ get_result(j).status_code = 200
    /\ get_result(j).body.status = "failed"
    /\ get_result(j).body.error_code = "UNEXPECTED_ERROR"
    /\ get_result(k).status_code = 200
    /\ get_result(k).body.status = "completed"
    /\ DOMAIN get_result(k).body.files = LogicalFiles

\* C16: create_job returns an id that no existing job has, adds exactly one
\* record, with status queued, progress 0, created_at and updated_at set and
\* no files, metadata or error fields, and leaves the record of every other
\* job as it was.
C16_CreateJobIsFresh ==
  [][\A id \in JobIds :
       (pc[id] # "created" /\ pc'[id] = "created") =>
         /\ id \notin Jobs
         /\ Jobs' = Jobs \cup {id}
         /\ upload_outcome' = [state |-> "accepted", job_id |-> id]
         /\ job_status'[id].job_id = id
         /\ job_status'[id].status = "queued"
         /\ job_status'[id].progress = 0
         /\ {"created_at", "updated_at"} \subseteq DOMAIN job_status'[id]
         /\ DOMAIN job_status'[id] \cap
              {"files", "metadata", "error_code", "error_message", "completed_at"} = {}
         /\ \A k \in Jobs : job_status'[k] = job_status[k]]_vars

\* a second job was created while the first had already ended
C16_Witness ==
  \E j, k \in Jobs :
    /\ pc[j] = "created"
    /\ job_status[j].status = "queued"
    /\ job_status[k].status \in Terminal

\* C17: under any interleaving of the process_job runs of different jobs,
\* every step of a run leaves the set of jobs and the record of every other
\* job as they were.
C17_RunTouchesOwnRecordOnly ==
  [][\A j \in JobIds :
       (pc[j] # "none" /\ pc'[j] # pc[j]) =>
         /\ Jobs' = Jobs
         /\ \A k \in Jobs \ {j} : job_status'[k] = job_status[k]]_vars

\* two runs are under way at once, at different positions
C17_Witness ==
  \E j, k \in Jobs :
    /\ j # k
    /\ job_status[j].status = "processing" /\ job_status[j].progress = 40
    /\ job_status[k].status = "processing" /\ job_status[k].progress = 10
    /\ ~ended(j) /\ ~ended(k)

C13_UnknownIdIsNotFound ==
  [][\A id \in JobIds \ Jobs :
       /\ ~get_job_status(id).found
       /\ get_status(id).status_code = 404
       /\ "body" \notin DOMAIN get_status(id)
       /\ (held' # held /\ held'.job_id = id) =>
            /\ held'.state = "not_found"
            /\ job_status' = job_status]_vars

\* with one job under way, a caller asked for an id no job has and got None
C13_Witness ==
  /\ held.state = "not_found"
  /\ held.job_id \notin Jobs
  /\ \E j \in Jobs : job_status[j].status = "processing"

\* C14: get_job_status returns a read-only snapshot: what a caller got is not
\* altered by the later updates of the orchestrator, and a caller changing
\* what it got does not change the stored record.
C14_ReadOnlySnapshot ==
  [][/\ (held.state = "ref" /\ held' = held) => held_value' = held_value
     /\ (held.state = "ref" /\ held'.state = "ref" /\ held'.written # held.written
           /\ held'.job_id = held.job_id)
          => job_status' = job_status]_vars

\* C21: no file of a job can be obtained through the download endpoint unless
\* the job is completed: download_file answers with a file only for a job
\* whose status is completed, never for one that is queued, processing or failed.
C21_DownloadOnlyWhenCompleted ==
  \A j \in DOMAIN storage :
    \A f \in storage[j] :
      download_file(j, f).status_code = 200 =>
        (j \in Jobs /\ job_status[j].status = "completed")

\* C22: a job's progress is always an integer in 0..100 and, once the job is
\* created, no operation sets it to a lower value than it had.
C22_ProgressNeverLowered ==
  [][\A j \in Jobs :
       /\ job_status'[j].progress \in 0..100
       /\ job_status'[j].progress >= job_status[j].progress]_vars

\* C22, amended: a job's progress is always an integer in 0..100, and the only
\* update that lowers it is the one that marks a processing job failed, which
\* sets it to 0.
C22_ProgressLoweredOnlyByFailure ==
  [][\A j \in Jobs :
       /\ job_status'[j].progress \in 0..100
       /\ job_status'[j].progress < job_status[j].progress =>
            /\ job_status[j].status = "processing"
            /\ job_status'[j].status = "failed"
            /\ job_status'[j].progress = 0]_vars

\* a job failed in vectorization, after progress 50, and is at progress 0
C22_Witness ==
  \E j \in Jobs :
    /\ job_status[j].status = "failed"
    /\ job_status[j].progress = 0
    /\ j \in DOMAIN preprocess_result
    /\ caught[j].kind = "VectorizationError"

\* C23: a job record has completed_at only if its status is completed, and
\* completed_at is set by the very update that sets the status to completed.
C23_CompletedAtWithCompleted ==
  [][\A j \in Jobs :
       /\ has(j, "completed_at") => job_status[j].status = "completed"
       /\ "completed_at" \in DOMAIN job_status'[j] => job_status'[j].status = "completed"
       /\ (job_status[j].status # "completed" /\ job_status'[j].status = "completed") =>
            (~has(j, "completed_at") /\ "completed_at" \in DOMAIN job_status'[j])]_vars

\* a completed job carries its completion time while another job, failed,
\* carries none
C23_Witness ==
  \E j, k \in Jobs :
    /\ job_status[j].status = "completed" /\ has(j, "completed_at")
    /\ job_status[k].status = "failed" /\ ~has(k, "completed_at")

\* C24: an accepted upload runs its job inside the request and responds only
\* once the run is over: a response exists only for a job whose process_job
\* call has ended, and the status an upload response reports is the terminal
\* status, completed or failed, that the job has.
C24_ResponseAfterRun ==
  \A j \in DOMAIN response :
    /\ pc[j] \in {"done", "raised"}
    /\ response[j].status_code = 200 =>
         /\ pc[j] = "done"
         /\ response[j].body.status \in Terminal
         /\ response[j].body.status = job_status[j].status
         /\ response[j].body.status = ret[j].value.status

\* two uploads were answered, one with completed and one with failed
C24_Witness ==
  \E j, k \in DOMAIN response :
    /\ response[j].status_code = 200 /\ response[j].body.status = "completed"
    /\ response[k].status_code = 200 /\ response[k].body.status = "failed"

\* C25: a status request sent while the run of its job is in flight is
\* answered with the Processing state the job is in, not after the run.
C25_StatusDuringRun ==
  (status_request.state = "answered" /\ status_request.in_flight) =>
    /\ status_request.answer.status_code = 200
    /\ status_request.answer.body.status = "processing"

\* C26: an upload whose buffer exceeds the size cap is rejected with the error
\* of the size validation, which differs from that of the type validation,
\* whatever the buffer contains, and no job id is issued.
C26_OversizeGetsSizeError ==
  (upload_outcome.state # "none" /\ content.size > MAX_FILE_SIZE) =>
    /\ upload_outcome.state = "rejected"
    /\ upload_outcome.detail = validate_file_size(content, MAX_FILE_SIZE).error.message
    /\ upload_outcome.detail \notin TypeRejections

\* the stages of a run, in the order process_job invokes them
Stages == <<"save_original", "preprocess", "vectorize", "finalize">>

\* the three files vectorize returns the paths of
OutputFiles == {<<"output", ".svg">>, <<"output", ".eps">>, <<"output", ".pdf">>}

\* C27: within one run the stages are invoked in the order persist original,
\* preprocess, vectorize, finalize; the vectorizer is invoked only after the
\* preprocessor has returned, and on the preprocessed artifact it returned; a
\* stage that failed is the last one the run invoked.
C27_StagesInOrder ==
  \A j \in JobIds :
    /\ Len(calls[j]) <= Len(Stages)
    /\ \A i \in 1..Len(calls[j]) :
         /\ calls[j][i].op = Stages[i]
         /\ calls[j][i].raised => i = Len(calls[j])
         /\ calls[j][i].op = "vectorize" =>
              /\ calls[j][i - 1].op = "preprocess" /\ ~calls[j][i - 1].raised
              /\ j \in DOMAIN preprocess_result
              /\ calls[j][i].input = preprocess_result[j].preprocessed_path
              /\ calls[j][i].input \in storage[j]

\* one run went through the four stages while the run of another job stopped
\* at a preprocessor that failed
C27_Witness ==
  \E j, k \in Jobs :
    /\ Len(calls[j]) = 4 /\ calls[j][3].input = preprocessed_name
    /\ pc[k] = "done" /\ Len(calls[k]) = 2 /\ calls[k][2].raised

\* C28: on a run that succeeds the (status, progress) pairs written to the job
\* are exactly processing/5, 10, 20, 40, 50, 80, 90 and then completed/100:
\* every update of a job that is not a failure moves progress to the next value
\* of that list, the status written below 100 is processing, and 100 is
\* written only together with status completed, files, metadata and
\* completed_at.
C28_CheckpointSequence ==
  [][\A j \in Jobs :
       (job_status'[j] # job_status[j] /\ job_status'[j].status # "failed") =>
         /\ <<job_status[j].progress, job_status'[j].progress>> \in
              {<<0, 5>>, <<5, 10>>, <<10, 20>>, <<20, 40>>, <<40, 50>>,
               <<50, 80>>, <<80, 90>>, <<90, 100>>}
         /\ job_status[j].status = IF job_status[j].progress = 0 THEN "queued" ELSE "processing"
         /\ job_status'[j].progress < 100 =>
              /\ job_status'[j].status = "processing"
              /\ DOMAIN job_status'[j] \cap {"files", "metadata", "completed_at"} = {}
         /\ job_status'[j].progress = 100 =>
              /\ job_status'[j].status = "completed"
              /\ {"files", "metadata", "completed_at"} \subseteq DOMAIN job_status'[j]]_vars

\* a run went through all the checkpoints and completed at 100
C28_Witness ==
  \E j \in Jobs :
    /\ job_status[j].status = "completed"
    /\ job_status[j].progress = 100
    /\ job_status[j].stage = "Complete"
    /\ pc[j] = "done"

\* C29: a vectorize call returns the three paths only when the three output
\* files were produced, and a call that fails, at the trace or at either
\* transcode, raises VectorizationError.
C29_VectorizeAtomic ==
  \A j \in JobIds : \A i \in 1..Len(calls[j]) :
    calls[j][i].op = "vectorize" =>
      LET out == calls[j][i].out
      IN  IF out.raised
            THEN out.error.kind = "VectorizationError"
            ELSE /\ OutputFiles \subseteq storage[j]
                 /\ {out.result.svg, out.result.eps, out.result.pdf} = OutputFiles

\* C30: within one run the preprocessor, the trace and each of the two
\* transcodes are attempted at most once: no stage is invoked twice, and
\* no operation appears twice among those a vectorize call attempted.
C30_NoRetry ==
  \A j \in JobIds : \A i, k \in 1..Len(calls[j]) :
    /\ calls[j][i].op = calls[j][k].op => i = k
    /\ calls[j][i].op = "vectorize" =>
         \A a, b \in 1..Len(calls[j][i].out.attempts) :
           calls[j][i].out.attempts[a] = calls[j][i].out.attempts[b] => a = b

\* a run ended failed after a trace that failed, attempted once
C30_Witness ==
  \E j \in Jobs :
    /\ pc[j] = "done"
    /\ job_status[j].status = "failed"
    /\ Len(calls[j]) = 3
    /\ calls[j][3].raised
    /\ calls[j][3].out.attempts = <<"bmp", "svg">>

\* C31: process_job is invoked exactly once for every job id the upload
\* path issues, right after create_job: the step that creates a job puts it
\* at the entry of process_job, nothing but the start of that run happens to
\* the jobs while it is there, and a job that has left the entry is never put
\* back at it.
C31_RunInvokedOnce ==
  [][\A j \in JobIds :
       /\ (j \in DOMAIN job_status' /\ j \notin DOMAIN job_status) =>
            (pc[j] = "none" /\ pc'[j] = "created")
       /\ (pc'[j] = "created" /\ pc[j] # "created") => j \notin DOMAIN job_status
       /\ pc[j] \notin {"none", "created"} => pc'[j] \notin {"none", "created"}
       /\ pc[j] = "created" =>
            \/ pc'[j] \in {"p5", "raised"} /\ \A k \in JobIds \ {j} : pc'[k] = pc[k]
            \/ UNCHANGED <<job_status, pc, storage, response>>]_vars

\* the run of a first job is over and answered, and the run of a second job,
\* entered once, is under way
C31_Witness ==
  \E j, k \in Jobs :
    /\ j # k
    /\ pc[j] = "done" /\ j \in DOMAIN response
    /\ pc[k] = "p20" /\ Len(calls[k]) = 1

\* C32: a run that finds its input file missing takes the job from
\* processing at progress 5 to failed with a ProcessingError, invokes no stage
\* and writes nothing to the job's storage.
C32_MissingInputFails ==
  [][\A j \in Jobs :
       (pc[j] = "p5" /\ pc'[j] # "p5" /\ input_path[j] \notin storage'[j]) =>
         /\ job_status[j].status = "processing" /\ job_status[j].progress = 5
         /\ job_status'[j].status = "failed"
         /\ job_status'[j].error_code = "ProcessingError"
         /\ job_status'[j].error_message = <<"Input file not found: ", input_path[j]>>
         /\ pc'[j] = "done"
         /\ ret'[j].value.status = "failed"
         /\ calls'[j] = << >>
         /\ storage'[j] \subseteq storage[j]]_vars

\* a run ended failed on a missing input, with no stage invoked and an empty
\* job directory
C32_Witness ==
  \E j \in Jobs :
    /\ pc[j] = "done"
    /\ job_status[j].status = "failed"
    /\ job_status[j].error_message = <<"Input file not found: ", input_path[j]>>
    /\ calls[j] = << >>
    /\ storage[j] = {}

\* C33: the value process_job returns agrees with the record of the job at
\* return time: the same status, on failure the same error_code and
\* error_message, on success the same files and metadata.
C33_ResultAgreesWithRecord ==
  \A j \in DOMAIN ret :
    ret[j].outcome = "returned" =>
      /\ ret[j].value.status = job_status[j].status
      /\ ret[j].value.status = "failed" =>
           /\ ret[j].value.error_code = job_status[j].error_code
           /\ ret[j].value.error_message = job_status[j].error_message
      /\ ret[j].value.status = "completed" =>
           /\ ret[j].value.files = job_status[j].files
           /\ ret[j].value.metadata = job_status[j].metadata

\* C34: every record of the job-status map carries original_filename, the
\* field only create_job writes: no record comes into existence otherwise,
\* not even when process_job is called with an id that was never created.
C34_RecordsFromCreateJob ==
  \A j \in DOMAIN job_status : "original_filename" \in DOMAIN job_status[j]

\* C35: background_removed, as preprocess returns it and as the metadata of
\* the job records it, is true only if the background-removal capability is
\* there, was loaded and returned without error; when the capability is absent
\* or fails the flag is false and the preprocessed artifact is the normalized
\* image.
C35_BackgroundRemovedFlag ==
  \A j \in JobIds : \A i \in 1..Len(calls[j]) :
    (calls[j][i].op = "preprocess" /\ ~calls[j][i].raised) =>
      LET out == calls[j][i].out
      IN  /\ out.result.background_removed =>
               (rembg = "removed" /\ REMBG_AVAILABLE = "True" /\ out.preprocessed_img = "processed_img")
          /\ rembg \in {"absent", "load_fails", "raises"} =>
               (~out.result.background_removed /\ out.preprocessed_img = "img")
          /\ (j \in Jobs /\ job_status[j].status = "completed") =>
               job_status[j].metadata.background_removed = out.result.background_removed

\* a job completed although the background removal raised: its metadata says
\* that no background was removed and the normalized image was vectorized
C35_Witness ==
  \E j \in Jobs :
    /\ rembg = "raises"
    /\ job_status[j].status = "completed"
    /\ ~job_status[j].metadata.background_removed
    /\ calls[j][2].out.preprocessed_img = "img"

\* C36: for every size (w, h), w, h >= 1, _resize_if_needed returns the
\* size unchanged when both dimensions are at most MAX_DIMENSION; otherwise the
\* larger dimension becomes MAX_DIMENSION, the other one is scaled by the same
\* ratio and rounded down, and both are at least 1 and at most MAX_DIMENSION.
C36_ResizeWithinBounds ==
  resized.called =>
    LET w == img_size[1]
        h == img_size[2]
    IN  /\ ~resized.out.raised
        /\ (w <= MAX_DIMENSION /\ h <= MAX_DIMENSION) => resized.out.size = img_size
        /\ (w > MAX_DIMENSION \/ h > MAX_DIMENSION) =>
             /\ resized.out.size =
                  IF w > h THEN <<MAX_DIMENSION, (h * MAX_DIMENSION) \div w>>
                           ELSE <<(w * MAX_DIMENSION) \div h, MAX_DIMENSION>>
             /\ \A i \in 1..2 : resized.out.size[i] >= 1 /\ resized.out.size[i] <= MAX_DIMENSION

\* the files the docstring of cleanup_temp_files calls final outputs
FinalOutputs == {original_name(e) : e \in {".jpg", ".png", ".heic"}} \cup OutputFiles

\* the intermediate artifacts of a run
Intermediates == {normalized_name, preprocessed_name}

\* C37: the intermediate artifacts stay in the job's storage until
\* cleanup_temp_files is called; a call for a job removes its intermediates,
\* removes none of original.* and output.svg/eps/pdf, leaves the directories
\* of the other jobs alone, and leaves in the job's directory the final
\* outputs only.
C37_CleanupLeavesFinalOutputs ==
  [][\A j \in DOMAIN storage :
       /\ (storage[j] \cap Intermediates) \ storage'[j] # {} => cleanup_temp_files(j)
       /\ cleanup_temp_files(j) =>
            /\ storage'[j] \cap Intermediates = {}
            /\ storage[j] \cap FinalOutputs \subseteq storage'[j]
            /\ \A k \in DOMAIN storage \ {j} : storage'[k] = storage[k]
            /\ storage'[j] \subseteq FinalOutputs]_vars

\* C38: the size limit of the uploads is the configured one: a well-formed
\* buffer is rejected if and only if its length exceeds
\* settings.max_file_size_bytes, whatever value is configured.
C38_ConfiguredSizeLimit ==
  (upload_outcome.state # "none" /\ ~validate_file_type(content).raised) =>
    (upload_outcome.state = "rejected" <=> content.size > max_file_size_bytes(settings))

====
